---- MODULE Spec2Model ----
(***************************************************************************)
(* Phaser.GameObjects.Mesh (src/gameobjects/mesh/Mesh.js): the vertex and  *)
(* face collections, their mutation API (addVertices, clearVertices,       *)
(* preDestroy), the queries (getFaceCount, getVertexCount, getFace,        *)
(* getFaceAt), the debug hook (setDebug) and the update hook (preUpdate).  *)
(*                                                                         *)
(* JavaScript values:                                                      *)
(*   - arrays are sequences; JS index i is sequence index i + 1;           *)
(*   - `undefined` in a numeric slot is the integer Undefined;             *)
(*   - a reference to a Vertex object is its 0-based index in              *)
(*     this.vertices (vertices are only appended, or dropped all at once   *)
(*     together with every face), or Undefined when the array read that    *)
(*     produced it was out of range;                                       *)
(*   - a reference to a Face object is its 0-based index in this.faces;    *)
(*   - an optional argument is a record with a `kind` field.               *)
(***************************************************************************)
EXTENDS Integers, Sequences, FiniteSets, TLC

VARIABLES
    vertices,       \* this.vertices : sequence of Vertex records
    faces,          \* this.faces    : sequence of Face records
    anims,          \* this.anims    : "AnimationState" or "undefined"
    debugCallback,  \* this.debugCallback
    debugGraphic,   \* this.debugGraphic
    lastOp,         \* the most recent call: its arguments and its outcome
    calls           \* the collaborator calls the most recent call made, in order

vars == <<vertices, faces, anims, debugCallback, debugGraphic, lastOp, calls>>

----------------------------------------------------------------------------
(* Bounds of the model *)

\* addVertices is not called when it would leave more vertices than this
MaxVerts == 6
\* addVertices is not called when it would leave more faces than this
MaxFaces == 2
\* the flat position / uv arrays passed to addVertices hold at most this many pairs
MaxPairs == 4

----------------------------------------------------------------------------
(* JavaScript values *)

Undefined == -1

\* arr[i] for a JS array: undefined when i is out of range
At(arr, i) == IF i >= 0 /\ i < Len(arr) THEN arr[i + 1] ELSE Undefined

Omitted == [kind |-> "undefined", val |-> Undefined, arr |-> <<>>]
Scalar(n) == [kind |-> "number", val |-> n, arr |-> <<>>]
Array(a) == [kind |-> "array", val |-> Undefined, arr |-> a]

----------------------------------------------------------------------------
(* Collaborators: Vertex and Face *)

Vertex(x, y, u, v, color, alpha) ==
    [x |-> x, y |-> y, u |-> u, v |-> v, color |-> color, alpha |-> alpha]

Face(vertex1, vertex2, vertex3) ==
    [vertex1 |-> vertex1, vertex2 |-> vertex2, vertex3 |-> vertex3]

\* The transformed position of a vertex under the matrix [a, b, c, d, e, f];
\* arithmetic on undefined is NaN, which stays Undefined
TransformX(vert, m) ==
    IF vert.x = Undefined \/ vert.y = Undefined THEN Undefined
    ELSE vert.x * m.a + vert.y * m.c + m.e

TransformY(vert, m) ==
    IF vert.x = Undefined \/ vert.y = Undefined THEN Undefined
    ELSE vert.x * m.b + vert.y * m.d + m.f

\* The cross product of (b - a) and (p - a): its sign tells the side of edge ab
\* on which p lies
Cross(ax, ay, bx, by, px, py) == (bx - ax) * (py - ay) - (by - ay) * (px - ax)

\* face.contains(x, y, calcMatrix) on a face of `verts`: "true" or "false", or
\* "throw" when the face holds an undefined vertex (reading a field of
\* undefined is a TypeError)
Contains(face, verts, px, py, m) ==
    IF face.vertex1 = Undefined \/ face.vertex2 = Undefined \/ face.vertex3 = Undefined
    THEN "throw"
    ELSE LET v1 == verts[face.vertex1 + 1]
             v2 == verts[face.vertex2 + 1]
             v3 == verts[face.vertex3 + 1]
             x0 == TransformX(v1, m)
             y0 == TransformY(v1, m)
             x1 == TransformX(v2, m)
             y1 == TransformY(v2, m)
             x2 == TransformX(v3, m)
             y2 == TransformY(v3, m)
             d1 == Cross(x0, y0, x1, y1, px, py)
             d2 == Cross(x1, y1, x2, y2, px, py)
             d3 == Cross(x2, y2, x0, y0, px, py)
         IN IF Undefined \in {v1.x, v1.y, v2.x, v2.y, v3.x, v3.y} THEN "false"
            ELSE IF Cross(x0, y0, x1, y1, x2, y2) = 0 THEN "false"
            ELSE IF (d1 >= 0 /\ d2 >= 0 /\ d3 >= 0) \/ (d1 <= 0 /\ d2 <= 0 /\ d3 <= 0)
                 THEN "true"
                 ELSE "false"

\* GetCalcMatrix(mesh, camera).calc: the main camera shows mesh space as it
\* is, the second camera is scrolled by ten units on x
CalcMatrix(camera) ==
    IF camera = "main"
    THEN [a |-> 1, b |-> 0, c |-> 0, d |-> 1, e |-> 0, f |-> 0]
    ELSE [a |-> 1, b |-> 0, c |-> 0, d |-> 1, e |-> 10, f |-> 0]

----------------------------------------------------------------------------
(* The arguments the model calls the operations with *)

QuadX == <<0, 10, 10, 0>>
QuadY == <<0, 0, 10, 10>>
QuadU == <<0, 1, 1, 0>>
QuadV == <<0, 0, 1, 1>>

\* A flat array of n (x, y) pairs: the corners of a 10 x 10 quad, in order,
\* the quad repeated 20 units further for every four pairs
PositionArray(n) ==
    [i \in 1..(2 * n) |->
        LET k == (i - 1) \div 2
        IN IF (i - 1) % 2 = 0 THEN QuadX[(k % 4) + 1] + 20 * (k \div 4)
                              ELSE QuadY[(k % 4) + 1] + 20 * (k \div 4)]

\* A flat array of n (u, v) pairs: the corners of the unit square
UVArray(n) ==
    [i \in 1..(2 * n) |->
        LET k == (i - 1) \div 2
        IN IF (i - 1) % 2 = 0 THEN QuadU[(k % 4) + 1] + 2 * (k \div 4)
                              ELSE QuadV[(k % 4) + 1] + 2 * (k \div 4)]

PositionArrays == { PositionArray(n) : n \in 0..MaxPairs }
UVArrays == { UVArray(n) : n \in 0..MaxPairs }

IndexArgs == { Omitted, Array(<<0, 1, 2, 0, 2, 3>>) }

\* colors and alphas: both omitted, one packed color with an array of alphas,
\* an array of packed colors with one alpha
TintArgs == { <<Omitted, Omitted>>,
              <<Scalar(255), Array(<<2, 3, 4, 5>>)>>,
              <<Array(<<256, 512, 768, 1024>>), Scalar(0)>> }

\* The calls of addVertices whose position and uv arrays have the same length
EqualCalls ==
    { [vertices |-> PositionArray(n), uvs |-> UVArray(n), indicies |-> ix,
       colors |-> t[1], alphas |-> t[2]] :
         n \in 0..MaxPairs, ix \in IndexArgs, t \in TintArgs }

\* The calls of addVertices whose uv array is one pair shorter or one pair
\* longer than the position array, for the shortest and the longest arrays
UnequalCalls ==
    { [vertices |-> PositionArray(nm[1]), uvs |-> UVArray(nm[2]), indicies |-> s[1],
       colors |-> s[2], alphas |-> s[3]] :
         nm \in { <<0, 1>>, <<1, 0>>, <<MaxPairs - 1, MaxPairs>>, <<MaxPairs, MaxPairs - 1>> },
         s \in { <<Omitted, Omitted, Omitted>>,
                 <<Array(<<0, 1, 2, 0, 2, 3>>), Array(<<256, 512, 768, 1024>>), Scalar(0)>> } }

Cameras == { "undefined", "cam2" }
QueryPoints == { <<5, 5>>, <<15, 2>>, <<12, 5>> }
Graphics == { "undefined", "graphic" }
Callbacks == { "undefined", "callback" }
FaceIndexes == (0 - 1)..MaxFaces
Frames == { <<0, 16>>, <<16, 17>> }

----------------------------------------------------------------------------
(* addVertices *)

White == 16777215
Opaque == 1

\* if (arg === undefined) { arg = dflt; }
Default(arg, dflt) == IF arg.kind = "undefined" THEN Scalar(dflt) ELSE arg

\* Array.isArray(arg)
IsArray(arg) == arg.kind = "array"

\* A length check that only rejects a uv array shorter than the positions
CountNotEqual_OnlyShorterUVs(vs, uvs) == Len(vs) > Len(uvs)

\* vertices.length !== uvs.length
CountNotEqual(vs, uvs) == Len(vs) # Len(uvs)

\* (isArray) ? arg[i] : arg
Pick(arg, i) == IF IsArray(arg) THEN At(arg.arr, i) ELSE arg.val

\* An indexed loop that reads the flat arrays at the index, not at index * 2
RECURSIVE IndexedLoop_NoStride(_, _, _, _, _, _, _)
IndexedLoop_NoStride(i, verts, vs, uvs, indicies, colors, alphas) ==
    IF i < Len(indicies)
    THEN LET index == At(indicies, i)
             vert == Vertex(At(vs, index), At(vs, index + 1),
                            At(uvs, index), At(uvs, index + 1),
                            Pick(colors, i), Pick(alphas, i))
         IN IndexedLoop_NoStride(i + 1, Append(verts, vert), vs, uvs, indicies,
                                 colors, alphas)
    ELSE verts

\* An indexed loop that takes color and alpha by the looked-up vertex index
RECURSIVE IndexedLoop_TintByIndex(_, _, _, _, _, _, _)
IndexedLoop_TintByIndex(i, verts, vs, uvs, indicies, colors, alphas) ==
    IF i < Len(indicies)
    THEN LET index == At(indicies, i) * 2
             vert == Vertex(At(vs, index), At(vs, index + 1),
                            At(uvs, index), At(uvs, index + 1),
                            Pick(colors, At(indicies, i)), Pick(alphas, At(indicies, i)))
         IN IndexedLoop_TintByIndex(i + 1, Append(verts, vert), vs, uvs, indicies,
                                    colors, alphas)
    ELSE verts

\* for (i = 0; i < indicies.length; i++): one new Vertex per index entry
RECURSIVE IndexedLoop(_, _, _, _, _, _, _)
IndexedLoop(i, verts, vs, uvs, indicies, colors, alphas) ==
    IF i < Len(indicies)
    THEN LET index == At(indicies, i) * 2
             vert == Vertex(At(vs, index), At(vs, index + 1),
                            At(uvs, index), At(uvs, index + 1),
                            Pick(colors, i), Pick(alphas, i))
         IN IndexedLoop(i + 1, Append(verts, vert), vs, uvs, indicies, colors, alphas)
    ELSE verts

\* for (i = 0; i < vertices.length; i += 2): one new Vertex per (x, y) pair
RECURSIVE FlatLoop(_, _, _, _, _, _, _)
FlatLoop(i, colorIndex, verts, vs, uvs, colors, alphas) ==
    IF i < Len(vs)
    THEN LET vert == Vertex(At(vs, i), At(vs, i + 1),
                            At(uvs, i), At(uvs, i + 1),
                            Pick(colors, colorIndex), Pick(alphas, colorIndex))
         IN FlatLoop(i + 2, colorIndex + 1, Append(verts, vert), vs, uvs, colors, alphas)
    ELSE verts

\* verts[i] as a reference: the vertex at i, undefined past the end
VertRef(verts, i) == IF i >= 0 /\ i < Len(verts) THEN i ELSE Undefined

\* A face loop that stops at the last whole triple
RECURSIVE FaceLoop_WholeTriplesOnly(_, _, _)
FaceLoop_WholeTriplesOnly(i, verts, fs) ==
    IF i + 2 < Len(verts)
    THEN LET face == Face(VertRef(verts, i), VertRef(verts, i + 1), VertRef(verts, i + 2))
         IN FaceLoop_WholeTriplesOnly(i + 3, verts, Append(fs, face))
    ELSE fs

\* for (i = 0; i < verts.length; i += 3): one new Face per step, over the
\* whole of this.vertices
RECURSIVE FaceLoop(_, _, _)
FaceLoop(i, verts, fs) ==
    IF i < Len(verts)
    THEN LET face == Face(VertRef(verts, i), VertRef(verts, i + 1), VertRef(verts, i + 2))
         IN FaceLoop(i + 3, verts, Append(fs, face))
    ELSE fs

\* An ingestion that keeps only whole triples of the vertex array
AddedVerts_WholeTriplesOnly(verts, vs, uvs, indicies, colors, alphas) ==
    LET all == IF IsArray(indicies)
               THEN IndexedLoop(0, verts, vs, uvs, indicies.arr,
                                Default(colors, White), Default(alphas, Opaque))
               ELSE FlatLoop(0, 0, verts, vs, uvs,
                             Default(colors, White), Default(alphas, Opaque))
    IN SubSeq(all, 1, 3 * (Len(all) \div 3))

\* An ingestion that starts a new vertex array instead of pushing onto
\* this.vertices
AddedVerts_StartsAfresh(verts, vs, uvs, indicies, colors, alphas) ==
    IF IsArray(indicies)
    THEN IndexedLoop(0, <<>>, vs, uvs, indicies.arr,
                     Default(colors, White), Default(alphas, Opaque))
    ELSE FlatLoop(0, 0, <<>>, vs, uvs,
                  Default(colors, White), Default(alphas, Opaque))

\* this.vertices after addVertices returned
AddedVerts(verts, vs, uvs, indicies, colors, alphas) ==
    IF IsArray(indicies)
    THEN IndexedLoop(0, verts, vs, uvs, indicies.arr,
                     Default(colors, White), Default(alphas, Opaque))
    ELSE FlatLoop(0, 0, verts, vs, uvs,
                  Default(colors, White), Default(alphas, Opaque))

----------------------------------------------------------------------------
(* The record of the most recent call *)

NoCall ==
    [op |-> "constructor", outcome |-> "return",
     vertices |-> <<>>, uvs |-> <<>>, indicies |-> Omitted,
     colors |-> Omitted, alphas |-> Omitted,
     prevVertexCount |-> 0, prevFaceCount |-> 0,
     x |-> 0, y |-> 0, camera |-> "undefined", index |-> 0,
     graphic |-> "undefined", callback |-> "undefined",
     time |-> 0, delta |-> 0,
     results |-> <<>>, face |-> Undefined]

Call(op, outcome) ==
    [NoCall EXCEPT !.op = op, !.outcome = outcome,
                   !.prevVertexCount = Len(vertices), !.prevFaceCount = Len(faces)]

----------------------------------------------------------------------------
(* The operations *)

\* new Mesh(scene, x, y, [], [])
Init ==
    /\ vertices = <<>>
    /\ faces = <<>>
    /\ anims = "AnimationState"
    /\ debugCallback = "null"
    /\ debugGraphic = "null"
    /\ lastOp = NoCall
    /\ calls = <<>>

getFaceCount == Len(faces)

getVertexCount == Len(vertices)

AddVertices ==
    \E a \in EqualCalls \cup UnequalCalls :
        LET call == [Call("addVertices", "return") EXCEPT
                        !.vertices = a.vertices, !.uvs = a.uvs, !.indicies = a.indicies,
                        !.colors = a.colors, !.alphas = a.alphas]
        IN IF CountNotEqual(a.vertices, a.uvs)
           THEN /\ lastOp' = [call EXCEPT !.outcome = "throw"]
                /\ calls' = <<>>
                /\ UNCHANGED <<vertices, faces, anims, debugCallback, debugGraphic>>
           ELSE LET verts == AddedVerts(vertices, a.vertices, a.uvs, a.indicies,
                                        a.colors, a.alphas)
                    fs == FaceLoop(0, verts, faces)
                IN /\ Len(verts) <= MaxVerts
                   /\ Len(fs) <= MaxFaces
                   /\ vertices' = verts
                   /\ faces' = fs
                   /\ lastOp' = call
                   /\ calls' = <<>>
                   /\ UNCHANGED <<anims, debugCallback, debugGraphic>>

\* A call made on a collaborator
CallTo(fn, face, time, delta) == [fn |-> fn, face |-> face, time |-> time, delta |-> delta]

\* this.faces.forEach(function (face) { face.destroy(); })
DestroyCalls(fs) ==
    [i \in 1..Len(fs) |-> CallTo("face.destroy", i - 1, Undefined, Undefined)]

\* A clearVertices that empties this.faces before it walks it
ClearVertices_EmptiesFirst ==
    /\ faces' = <<>>
    /\ vertices' = <<>>
    /\ calls' = DestroyCalls(faces')
    /\ lastOp' = Call("clearVertices", "return")
    /\ UNCHANGED <<anims, debugCallback, debugGraphic>>

\* A clearVertices that forgets to empty this.vertices
ClearVertices_KeepsVertices ==
    /\ calls' = DestroyCalls(faces)
    /\ faces' = <<>>
    /\ vertices' = vertices
    /\ lastOp' = Call("clearVertices", "return")
    /\ UNCHANGED <<anims, debugCallback, debugGraphic>>

ClearVertices ==
    /\ calls' = DestroyCalls(faces)
    /\ faces' = <<>>
    /\ vertices' = <<>>
    /\ lastOp' = Call("clearVertices", "return")
    /\ UNCHANGED <<anims, debugCallback, debugGraphic>>

\* this.faces[index] as a reference: the face at index, undefined out of range
\* A bounds test that takes faces.length itself for an index of the array
FaceRef_OneTooFar(fs, index) == IF index >= 0 /\ index <= Len(fs) THEN index ELSE Undefined

FaceRef(fs, index) == IF index >= 0 /\ index < Len(fs) THEN index ELSE Undefined

GetFace ==
    \E index \in FaceIndexes :
        /\ lastOp' = [Call("getFace", "return") EXCEPT
                         !.index = index, !.face = FaceRef(faces, index)]
        /\ calls' = <<>>
        /\ UNCHANGED <<vertices, faces, anims, debugCallback, debugGraphic>>

\* for (var i = 0; i < faces.length; i++): collects the faces that contain the
\* point; an error raised by face.contains ends the call
RECURSIVE FaceAtLoop(_, _, _, _, _, _, _)
FaceAtLoop(i, results, fs, verts, x, y, calcMatrix) ==
    IF i < Len(fs)
    THEN LET hit == Contains(fs[i + 1], verts, x, y, calcMatrix)
         IN IF hit = "throw"
            THEN [outcome |-> "throw", results |-> <<>>]
            ELSE FaceAtLoop(i + 1,
                            IF hit = "true" THEN Append(results, FaceRef(fs, i))
                                            ELSE results,
                            fs, verts, x, y, calcMatrix)
    ELSE [outcome |-> "return", results |-> results]

\* A getFaceAt that filters this.faces in place
GetFaceAt_KeepsOnlyHits ==
    \E p \in QueryPoints, camera \in Cameras :
        LET cam == IF camera = "undefined" THEN "main" ELSE camera
            r == FaceAtLoop(0, <<>>, faces, vertices, p[1], p[2], CalcMatrix(cam))
        IN /\ lastOp' = [Call("getFaceAt", r.outcome) EXCEPT
                            !.x = p[1], !.y = p[2], !.camera = camera,
                            !.results = r.results]
           /\ calls' = <<>>
           /\ faces' = IF r.outcome = "return"
                       THEN [i \in 1..Len(r.results) |-> faces[r.results[i] + 1]]
                       ELSE faces
           /\ UNCHANGED <<vertices, anims, debugCallback, debugGraphic>>

GetFaceAt ==
    \E p \in QueryPoints, camera \in Cameras :
        LET cam == IF camera = "undefined" THEN "main" ELSE camera
            r == FaceAtLoop(0, <<>>, faces, vertices, p[1], p[2], CalcMatrix(cam))
        IN /\ lastOp' = [Call("getFaceAt", r.outcome) EXCEPT
                            !.x = p[1], !.y = p[2], !.camera = camera,
                            !.results = r.results]
           /\ calls' = <<>>
           /\ UNCHANGED <<vertices, faces, anims, debugCallback, debugGraphic>>

\* A setDebug that leaves the callback in place when called without arguments
SetDebug_KeepsCallback ==
    \E graphic \in Graphics, callback \in Callbacks :
        /\ debugGraphic' = graphic
        /\ debugCallback' =
              IF graphic = "undefined" /\ callback = "undefined" THEN debugCallback
              ELSE IF callback = "undefined" THEN "renderDebugVerts"
              ELSE callback
        /\ lastOp' = [Call("setDebug", "return") EXCEPT
                         !.graphic = graphic, !.callback = callback]
        /\ calls' = <<>>
        /\ UNCHANGED <<vertices, faces, anims>>

SetDebug ==
    \E graphic \in Graphics, callback \in Callbacks :
        /\ debugGraphic' = graphic
        /\ debugCallback' =
              IF graphic = "undefined" /\ callback = "undefined" THEN "null"
              ELSE IF callback = "undefined" THEN "renderDebugVerts"
              ELSE callback
        /\ lastOp' = [Call("setDebug", "return") EXCEPT
                         !.graphic = graphic, !.callback = callback]
        /\ calls' = <<>>
        /\ UNCHANGED <<vertices, faces, anims>>

\* this.anims.update(time, delta): a TypeError once this.anims is undefined
PreUpdate ==
    \E t \in Frames :
        IF anims = "undefined"
        THEN /\ lastOp' = [Call("preUpdate", "throw") EXCEPT
                              !.time = t[1], !.delta = t[2]]
             /\ calls' = <<>>
             /\ UNCHANGED <<vertices, faces, anims, debugCallback, debugGraphic>>
        ELSE /\ lastOp' = [Call("preUpdate", "return") EXCEPT
                              !.time = t[1], !.delta = t[2]]
             /\ calls' = <<CallTo("anims.update", Undefined, t[1], t[2])>>
             /\ UNCHANGED <<vertices, faces, anims, debugCallback, debugGraphic>>

\* A preDestroy that does not read this.anims and so runs again after teardown
PreDestroy_Repeatable ==
    /\ calls' = <<CallTo("anims.destroy", Undefined, Undefined, Undefined)>>
                   \o DestroyCalls(faces)
    /\ anims' = "undefined"
    /\ faces' = <<>>
    /\ vertices' = <<>>
    /\ debugCallback' = "null"
    /\ debugGraphic' = "null"
    /\ lastOp' = Call("preDestroy", "return")

\* A preDestroy that leaves this.debugGraphic set
PreDestroy_KeepsDebugGraphic ==
    IF anims = "undefined"
    THEN /\ lastOp' = Call("preDestroy", "throw")
         /\ calls' = <<>>
         /\ UNCHANGED <<vertices, faces, anims, debugCallback, debugGraphic>>
    ELSE /\ calls' = <<CallTo("anims.destroy", Undefined, Undefined, Undefined)>>
                        \o DestroyCalls(faces)
         /\ anims' = "undefined"
         /\ faces' = <<>>
         /\ vertices' = <<>>
         /\ debugCallback' = "null"
         /\ debugGraphic' = debugGraphic
         /\ lastOp' = Call("preDestroy", "return")

\* this.anims.destroy() is a TypeError once this.anims is undefined; otherwise
\* the animation state is released, clearVertices() runs and the debug hooks
\* are nulled
PreDestroy ==
    IF anims = "undefined"
    THEN /\ lastOp' = Call("preDestroy", "throw")
         /\ calls' = <<>>
         /\ UNCHANGED <<vertices, faces, anims, debugCallback, debugGraphic>>
    ELSE /\ calls' = <<CallTo("anims.destroy", Undefined, Undefined, Undefined)>>
                        \o DestroyCalls(faces)
         /\ anims' = "undefined"
         /\ faces' = <<>>
         /\ vertices' = <<>>
         /\ debugCallback' = "null"
         /\ debugGraphic' = "null"
         /\ lastOp' = Call("preDestroy", "return")

Next ==
    \/ AddVertices
    \/ ClearVertices
    \/ GetFace
    \/ GetFaceAt
    \/ SetDebug
    \/ PreUpdate
    \/ PreDestroy

Spec == Init /\ [][Next]_vars

----------------------------------------------------------------------------
(* Properties *)

\* The most recent call was an addVertices that returned
AddReturned == lastOp.op = "addVertices" /\ lastOp.outcome = "return"

\* The vertices the most recent addVertices appended
Emitted == SubSeq(vertices, lastOp.prevVertexCount + 1, Len(vertices))

\* The vertex references a face holds (undefined ones left out)
RefsOf(face) == {face.vertex1, face.vertex2, face.vertex3} \ {Undefined}

\* C1: addVertices on an empty mesh produces floor((positions.length / 2) / 3)
\* faces without an index array and floor(indices.length / 3) faces with one.
C1_FaceCountOnEmptyMesh ==
    (AddReturned /\ lastOp.prevVertexCount = 0 /\ lastOp.prevFaceCount = 0) =>
        getFaceCount = IF IsArray(lastOp.indicies)
                       THEN Len(lastOp.indicies.arr) \div 3
                       ELSE (Len(lastOp.vertices) \div 2) \div 3

\* C2: in every reachable state a mesh holding N vertices holds exactly
\* floor(N / 3) faces.
C2_FaceCountIsFloorOfVertexCount == getFaceCount = getVertexCount \div 3

\* C3: every face appended by an addVertices call references only vertices
\* appended by that call, and no vertex is referenced by more than one face.
C3_NoRetriangulation ==
    /\ AddReturned =>
          \A j \in (lastOp.prevFaceCount + 1)..Len(faces) :
              \A r \in RefsOf(faces[j]) : r >= lastOp.prevVertexCount
    /\ \A i, j \in 1..Len(faces) :
          i # j => RefsOf(faces[i]) \cap RefsOf(faces[j]) = {}

\* C4: addVertices with positions.length !== uvs.length always raises an
\* error, whatever the mesh held and whatever the other arguments are, and
\* leaves the vertex and face collections exactly as they were.
C4_UnequalCountsRejected ==
    [][(lastOp'.op = "addVertices" /\ Len(lastOp'.vertices) # Len(lastOp'.uvs)) =>
          /\ lastOp'.outcome = "throw"
          /\ vertices' = vertices
          /\ faces' = faces]_vars

C4_Witness ==
    /\ lastOp.op = "addVertices"
    /\ lastOp.outcome = "throw"
    /\ Len(lastOp.vertices) < Len(lastOp.uvs)
    /\ IsArray(lastOp.indicies)
    /\ Len(vertices) > 0
    /\ Len(faces) > 0

\* C5: clearVertices leaves getFaceCount() = 0 and getVertexCount() = 0 from
\* any state, and a clearVertices that follows a clearVertices, or that runs on
\* an empty mesh, changes nothing and destroys no face.
C5_ClearVerticesEmptiesAndIsIdempotent ==
    [][lastOp'.op = "clearVertices" =>
          /\ lastOp'.outcome = "return"
          /\ getFaceCount' = 0
          /\ getVertexCount' = 0
          /\ (lastOp.op = "clearVertices" \/ (vertices = <<>> /\ faces = <<>>)) =>
                /\ calls' = <<>>
                /\ UNCHANGED <<vertices, faces, anims, debugCallback, debugGraphic>>]_vars

C5_Witness ==
    /\ lastOp.op = "clearVertices"
    /\ lastOp.prevVertexCount > 0
    /\ lastOp.prevFaceCount > 0
    /\ calls # <<>>
    /\ getFaceCount = 0
    /\ getVertexCount = 0

\* C6: every face of the mesh references exactly three existing vertices of
\* the vertex collection; no face is created with an undefined vertex.
C6_FacesHoldThreeVertices ==
    \A j \in 1..Len(faces) :
        /\ faces[j].vertex1 \in 0..(Len(vertices) - 1)
        /\ faces[j].vertex2 \in 0..(Len(vertices) - 1)
        /\ faces[j].vertex3 \in 0..(Len(vertices) - 1)

\* C7: indexed addVertices appends one vertex per entry of the index array,
\* the k-th of them at (positions[2 * indices[k]], positions[2 * indices[k] + 1])
\* with uv (uvs[2 * indices[k]], uvs[2 * indices[k] + 1]); four positions
\* with indices [0, 1, 2, 0, 2, 3] on an empty mesh give 6 vertices, 2 faces.
C7_OneVertexPerIndexEntry ==
    (AddReturned /\ IsArray(lastOp.indicies)) =>
        LET ix == lastOp.indicies.arr
        IN /\ Len(Emitted) = Len(ix)
           /\ \A k \in 0..(Len(ix) - 1) :
                 /\ Emitted[k + 1].x = At(lastOp.vertices, 2 * ix[k + 1])
                 /\ Emitted[k + 1].y = At(lastOp.vertices, 2 * ix[k + 1] + 1)
                 /\ Emitted[k + 1].u = At(lastOp.uvs, 2 * ix[k + 1])
                 /\ Emitted[k + 1].v = At(lastOp.uvs, 2 * ix[k + 1] + 1)
           /\ (lastOp.prevVertexCount = 0 /\ Len(lastOp.vertices) = 8
                  /\ ix = <<0, 1, 2, 0, 2, 3>>) =>
                 (getVertexCount = 6 /\ getFaceCount = 2)

C7_Witness ==
    /\ AddReturned
    /\ lastOp.indicies = Array(<<0, 1, 2, 0, 2, 3>>)
    /\ lastOp.vertices = <<0, 0, 10, 0, 10, 10, 0, 10>>
    /\ lastOp.prevVertexCount = 0
    /\ getVertexCount = 6
    /\ vertices[4].x = 0 /\ vertices[4].y = 0
    /\ vertices[6].x = 0 /\ vertices[6].y = 10

\* The color (alpha) the k-th vertex of a call gets from its colors (alphas)
\* argument, with `dflt` for an omitted argument
TintOf(arg, k, dflt) ==
    IF arg.kind = "array" THEN At(arg.arr, k)
    ELSE IF arg.kind = "number" THEN arg.val
    ELSE dflt

\* C8: the k-th vertex an addVertices call emits gets colors[k] and alphas[k]
\* when these are arrays (k counts the entries of the index array in indexed
\* mode, the emitted vertices otherwise), the scalar when they are scalars,
\* and 0xffffff and 1 when they are omitted.
C8_TintByEmissionOrder ==
    AddReturned =>
        \A k \in 0..(Len(Emitted) - 1) :
            /\ Emitted[k + 1].color = TintOf(lastOp.colors, k, 16777215)
            /\ Emitted[k + 1].alpha = TintOf(lastOp.alphas, k, 1)

C8_Witness ==
    /\ AddReturned
    /\ lastOp.indicies = Array(<<0, 1, 2, 0, 2, 3>>)
    /\ IsArray(lastOp.colors)
    /\ Len(Emitted) = 6
    /\ Emitted[4].x = Emitted[1].x /\ Emitted[4].y = Emitted[1].y
    /\ Emitted[4].color # Emitted[1].color

\* C9: getFaceAt returns the faces of the mesh that contain the point, in
\* face order and each once, and an empty result for an empty mesh.
C9_FaceAtReturnsContainingFaces ==
    lastOp.op = "getFaceAt" =>
        LET cam == IF lastOp.camera = "undefined" THEN "main" ELSE lastOp.camera
            res == lastOp.results
        IN /\ lastOp.outcome = "return"
           /\ \A i \in 1..Len(res) : \A j \in 1..Len(res) : i < j => res[i] < res[j]
           /\ \A f \in 0..(Len(faces) - 1) :
                 (\E i \in 1..Len(res) : res[i] = f) <=>
                    Contains(faces[f + 1], vertices, lastOp.x, lastOp.y,
                             CalcMatrix(cam)) = "true"
           /\ \A i \in 1..Len(res) : res[i] \in 0..(Len(faces) - 1)
           /\ faces = <<>> => res = <<>>

\* C10: preDestroy on a live mesh completes without error and leaves the
\* animation state released, no vertices, no faces, every face the mesh held
\* destroyed, and debugCallback and debugGraphic null.
C10_PreDestroyTearsDown ==
    [][(lastOp'.op = "preDestroy" /\ anims = "AnimationState") =>
          /\ lastOp'.outcome = "return"
          /\ anims' = "undefined"
          /\ getVertexCount' = 0
          /\ getFaceCount' = 0
          /\ debugCallback' = "null"
          /\ debugGraphic' = "null"
          /\ calls'[1].fn = "anims.destroy"
          /\ \A f \in 0..(Len(faces) - 1) :
                Cardinality({ j \in 1..Len(calls') :
                                 calls'[j].fn = "face.destroy" /\ calls'[j].face = f }) = 1]_vars

C10_Witness ==
    /\ lastOp.op = "preDestroy"
    /\ lastOp.outcome = "return"
    /\ lastOp.prevFaceCount = 2
    /\ lastOp.prevVertexCount = 6
    /\ Len(calls) = 3
    /\ anims = "undefined"

\* C11: the debug state is decided by the most recent setDebug call alone: no
\* arguments disable debugging (debugCallback null), a surface alone selects
\* the built-in renderDebugVerts and becomes debugGraphic, a callback becomes
\* debugCallback.
C11_SetDebugDecidedByLastCall ==
    lastOp.op = "setDebug" =>
        /\ lastOp.outcome = "return"
        /\ (lastOp.graphic = "undefined" /\ lastOp.callback = "undefined") =>
              debugCallback = "null"
        /\ (lastOp.graphic # "undefined" /\ lastOp.callback = "undefined") =>
              (debugCallback = "renderDebugVerts" /\ debugGraphic = lastOp.graphic)
        /\ lastOp.callback # "undefined" => debugCallback = lastOp.callback

C11_Witness ==
    /\ lastOp.op = "setDebug"
    /\ lastOp.graphic = "undefined"
    /\ lastOp.callback = "undefined"
    /\ debugCallback = "null"
    /\ debugGraphic = "undefined"
    /\ Len(faces) > 0

\* C12: getFace(index) returns the face at index when 0 <= index <
\* getFaceCount() and undefined for any other index; it never throws and
\* never changes the mesh.
C12_GetFaceInRangeOrUndefined ==
    [][lastOp'.op = "getFace" =>
          /\ lastOp'.outcome = "return"
          /\ (0 <= lastOp'.index /\ lastOp'.index < getFaceCount) =>
                lastOp'.face = lastOp'.index
          /\ (lastOp'.index < 0 \/ lastOp'.index >= getFaceCount) =>
                lastOp'.face = Undefined
          /\ UNCHANGED <<vertices, faces, anims, debugCallback, debugGraphic>>]_vars

C12_Witness ==
    /\ lastOp.op = "getFace"
    /\ lastOp.index = getFaceCount
    /\ getFaceCount > 0
    /\ lastOp.face = Undefined

\* The number of vertices the arguments of the most recent addVertices supply
Supplied ==
    IF IsArray(lastOp.indicies) THEN Len(lastOp.indicies.arr)
    ELSE Len(lastOp.vertices) \div 2

C14_AddVerticesOnlyAppends ==
    [][(lastOp'.op = "addVertices" /\ lastOp'.outcome = "return") =>
          /\ Len(vertices') >= Len(vertices)
          /\ SubSeq(vertices', 1, Len(vertices)) = vertices
          /\ Len(faces') >= Len(faces)
          /\ SubSeq(faces', 1, Len(faces)) = faces]_vars

C14_Witness ==
    /\ AddReturned
    /\ lastOp.prevVertexCount > 0
    /\ lastOp.prevFaceCount > 0
    /\ getVertexCount > lastOp.prevVertexCount
    /\ getFaceCount > lastOp.prevFaceCount

\* C15: clearVertices calls destroy on every face the mesh holds, once each
\* and in face order, before the face and vertex collections are emptied: the
\* destroy calls of the call are those of the faces held before it, and no
\* such face is left undestroyed.
C15_ClearVerticesDestroysEveryFace ==
    [][lastOp'.op = "clearVertices" =>
          /\ Len(calls') = Len(faces)
          /\ \A i \in 1..Len(faces) :
                /\ calls'[i].fn = "face.destroy"
                /\ calls'[i].face = i - 1
          /\ faces' = <<>>
          /\ vertices' = <<>>]_vars

C15_Witness ==
    /\ lastOp.op = "clearVertices"
    /\ lastOp.prevFaceCount = 2
    /\ Len(calls) = 2
    /\ calls[1].face = 0
    /\ calls[2].face = 1
    /\ faces = <<>>
    /\ vertices = <<>>

\* C16: preUpdate, getFaceAt, getFace and setDebug leave the vertex and face
\* collections unchanged; only addVertices, clearVertices and preDestroy
\* change them; and all preUpdate does on a live mesh is one
\* anims.update(time, delta) call.
C16_GeometryStaticUnlessMutated ==
    [][/\ lastOp'.op \in {"preUpdate", "getFaceAt", "getFace", "setDebug"} =>
             (vertices' = vertices /\ faces' = faces)
       /\ (vertices' # vertices \/ faces' # faces) =>
             lastOp'.op \in {"addVertices", "clearVertices", "preDestroy"}
       /\ lastOp'.op = "preUpdate" =>
             /\ UNCHANGED <<vertices, faces, anims, debugCallback, debugGraphic>>
             /\ anims = "AnimationState" =>
                   /\ lastOp'.outcome = "return"
                   /\ calls' = <<[fn |-> "anims.update", face |-> Undefined,
                                  time |-> lastOp'.time, delta |-> lastOp'.delta]>>]_vars

C16_Witness ==
    /\ lastOp.op = "preUpdate"
    /\ lastOp.outcome = "return"
    /\ lastOp.time = 16
    /\ lastOp.delta = 17
    /\ Len(calls) = 1
    /\ Len(vertices) > 0
    /\ Len(faces) > 0

\* C17: every face references three consecutive vertices vertices[3j],
\* vertices[3j + 1], vertices[3j + 2] of the vertex sequence, in that order as
\* (v1, v2, v3), and within the faces one addVertices call created j is
\* strictly increasing.
C17_FacesAreConsecutiveTriples ==
    /\ \A f \in 1..Len(faces) :
          \E j \in 0..Len(vertices) :
              /\ 3 * j + 2 < Len(vertices)
              /\ faces[f].vertex1 = 3 * j
              /\ faces[f].vertex2 = 3 * j + 1
              /\ faces[f].vertex3 = 3 * j + 2
    /\ AddReturned =>
          \A a, b \in (lastOp.prevFaceCount + 1)..Len(faces) :
              a < b => faces[a].vertex1 < faces[b].vertex1

C19_TeardownNotRepeatable ==
    [][/\ anims = "undefined" => anims' = "undefined"
       /\ (lastOp'.op \in {"preDestroy", "preUpdate"} /\ anims = "undefined") =>
             /\ lastOp'.outcome = "throw"
             /\ calls' = <<>>
             /\ UNCHANGED <<vertices, faces, anims, debugCallback, debugGraphic>>]_vars

C19_Witness ==
    /\ lastOp.op = "preDestroy"
    /\ lastOp.outcome = "throw"
    /\ anims = "undefined"
    /\ vertices = <<>>
    /\ faces = <<>>
    /\ debugCallback = "null"
    /\ debugGraphic = "null"

====
